---- MODULE Spec2Model ----
(***************************************************************************)
(* The prison-escape game of src/src/main.rs: the World of three Maps, the *)
(* prisoner's state, Map::move_entity, parse_tilemap and the body of the   *)
(* event loop of main (one turn per key press).                            *)
(*                                                                         *)
(* The three map texts (map0.txt, map1.txt, map2.txt) are input to the     *)
(* program; they are drawn from the layouts of Drawing below.  Positions   *)
(* are the program's own (x, y) on the 80 x 23 board.                      *)
(*                                                                         *)
(* A tile array [[Tile; 81]; 23] is held sparsely: a function from the     *)
(* positions <<x, y>> whose tile is not Wall to their tile; every other    *)
(* position of the array is a Wall.  TileAt and SetTile are the only       *)
(* readers and writers of that representation.                             *)
(***************************************************************************)
EXTENDS Integers, Sequences, FiniteSets, TLC

VARIABLES world, prisoner_state, game_over, status_message, pc,
          overflow_checks, last

vars == <<world, prisoner_state, game_over, status_message, pc,
          overflow_checks, last>>

\* ------------------------------------------------------------ constants

\* [[Tile; 81]; 23]: 81 tiles a row (80 of the board and the line break).
TILES_W == 81
TILES_H == 23
\* The ranges move_entity accepts: (0..80) and (0..23).
BOARD_W == 80
BOARD_H == 23
\* PrisonerState { health: 100 } and health -= 50.
START_HEALTH == 100
GUARD_DAMAGE == 50
\* door_id == DoorID(3): the way out.
EXIT_DOOR == 3
\* rng.gen_range(-2..=2)
GUARD_REACH == 2

\* ---------------------------------------------------------------- tiles

Empty == [kind |-> "Empty"]
Wall == [kind |-> "Wall"]
Key(d) == [kind |-> "Key", id |-> d]
Door(d) == [kind |-> "Door", id |-> d]

\* tiles[y][x]
TileAt(tiles, x, y) ==
    IF <<x, y>> \in DOMAIN tiles THEN tiles[<<x, y>>] ELSE Wall

\* A write that leaves the tile as it was.
SetTile_keeps(tiles, x, y, t) == tiles

\* A write that leaves a Wall, whatever tile is written.
SetTile_wall(tiles, x, y, t) ==
    [p \in DOMAIN tiles \ {<<x, y>>} |-> tiles[p]]

\* tiles[y][x] = t
SetTile(tiles, x, y, t) ==
    IF t = Wall
    THEN [p \in DOMAIN tiles \ {<<x, y>>} |-> tiles[p]]
    ELSE [p \in DOMAIN tiles \cup {<<x, y>>} |->
            IF p = <<x, y>> THEN t ELSE tiles[p]]

\* char::to_digit(10) on '0'..'9'
to_digit(ch) ==
    CASE ch = "0" -> 0 [] ch = "1" -> 1 [] ch = "2" -> 2 [] ch = "3" -> 3
      [] ch = "4" -> 4 [] ch = "5" -> 5 [] ch = "6" -> 6 [] ch = "7" -> 7
      [] ch = "8" -> 8 [] ch = "9" -> 9

\* The match of parse_tilemap: one character to one tile.
decode_tile(ch) ==
    CASE ch = "#" -> Wall
      [] ch = "." -> Empty
      [] ch \in {"0", "1", "2", "3", "4"} -> Door(to_digit(ch))
      [] ch \in {"5", "6", "7", "8", "9"} -> Key(to_digit(ch) - 5)
      [] OTHER -> Empty

\* parse_tilemap::<81, 23>: the text in chunks of 81 characters, one chunk a
\* row; a tile the text does not reach stays Empty.
parse_tilemap(text) ==
    LET tile(x, y) ==
            IF y * TILES_W + x + 1 <= Len(text)
            THEN decode_tile(text[y * TILES_W + x + 1])
            ELSE Empty
        open == {p \in (0 .. TILES_W - 1) \X (0 .. TILES_H - 1) :
                    tile(p[1], p[2]) # Wall}
    IN  [p \in open |-> tile(p[1], p[2])]

\* ------------------------------------------------------------- the maps

\* The layouts the map texts are drawn from: the cells of each text that are
\* not '#', as <<x, y, character>>.  In layout "A" one guard of map 0 can
\* walk to the prisoner's cell block, which holds two keys and two doors;
\* map 1 has a key on the entry (6,0) and map 2 a wall on the entry (40,0).
\* In layout "B" two guards of map 0 can reach the prisoner, who is walled
\* in.  In layout "C" the prisoner is walled in and one guard of each map
\* stands at, or can walk to, an edge of the board.  In layout "D" the
\* prisoner starts on a key, and the entry (40,0) of maps 1 and 2 is the
\* door that key opens; the key of door 3 lies beside the start and door 3
\* beside the entry of map 1.
Layouts == {"A", "B", "C", "D"}

Drawing(layout, m) ==
    CASE layout = "A" /\ m = 0 ->
            {<<53,7,".">>, <<52,7,"5">>, <<54,7,"0">>, <<53,6,"6">>, <<53,8,"1">>,
             <<65,11,".">>, <<63,9,".">>, <<61,8,".">>, <<59,7,".">>,
             <<57,6,".">>, <<55,6,".">>,
             <<21,15,".">>, <<74,20,".">>, <<8,19,".">>}
      [] layout = "A" /\ m = 1 ->
            {<<7,9,".">>, <<76,14,".">>, <<39,15,".">>,
             <<74,0,".">>, <<73,0,"3">>, <<75,0,"2">>, <<74,1,"0">>,
             <<6,0,"7">>, <<5,0,"2">>, <<7,0,".">>}
      [] layout = "A" /\ m = 2 ->
            {<<47,9,".">>, <<69,13,".">>, <<19,22,".">>, <<29,3,".">>,
             <<74,0,".">>, <<73,0,"0">>, <<75,0,"3">>,
             <<40,1,".">>, <<40,2,"3">>}
      [] layout = "B" /\ m = 0 ->
            {<<53,7,".">>,
             <<65,11,".">>, <<63,9,".">>, <<61,8,".">>, <<59,7,".">>,
             <<57,6,".">>, <<55,6,".">>,
             <<74,20,".">>, <<72,18,".">>, <<70,16,".">>, <<68,14,".">>,
             <<66,12,".">>,
             <<21,15,".">>, <<8,19,".">>}
      [] layout = "B" /\ m = 1 ->
            {<<7,9,".">>, <<76,14,".">>, <<39,15,".">>}
      [] layout = "B" /\ m = 2 ->
            {<<47,9,".">>, <<69,13,".">>, <<19,22,".">>, <<29,3,".">>}
      [] layout = "C" /\ m = 0 ->
            {<<53,7,".">>, <<21,15,".">>, <<65,11,".">>, <<74,20,".">>,
             <<8,19,".">>, <<6,19,".">>, <<4,19,".">>, <<2,19,".">>,
             <<0,19,".">>}
      [] layout = "C" /\ m = 1 ->
            {<<7,9,".">>, <<76,14,".">>, <<78,14,".">>, <<79,14,".">>,
             <<39,15,".">>}
      [] layout = "C" /\ m = 2 ->
            {<<47,9,".">>, <<69,13,".">>, <<19,22,".">>, <<29,3,".">>,
             <<29,1,".">>, <<29,0,".">>}
      [] layout = "D" /\ m = 0 ->
            {<<53,7,"9">>, <<53,8,"4">>, <<52,7,"8">>,
             <<21,15,".">>, <<65,11,".">>, <<74,20,".">>, <<8,19,".">>}
      [] layout = "D" /\ m = 1 ->
            {<<7,9,".">>, <<76,14,".">>, <<39,15,".">>, <<40,0,"4">>,
             <<41,0,"3">>}
      [] layout = "D" /\ m = 2 ->
            {<<47,9,".">>, <<69,13,".">>, <<19,22,".">>, <<29,3,".">>,
             <<40,0,"4">>}

\* include_str!("map<m>.txt"): 23 lines of 80 characters, each ended by a
\* line break, as the sequence of its characters.
MapText(layout, m) ==
    LET D == Drawing(layout, m)
        ch(x, y) ==
            IF x = BOARD_W THEN "\n"
            ELSE IF \E c \in D : c[1] = x /\ c[2] = y
                 THEN (CHOOSE c \in D : c[1] = x /\ c[2] = y)[3]
                 ELSE "#"
    IN  [i \in 1 .. TILES_W * TILES_H |->
            ch((i - 1) % TILES_W, (i - 1) \div TILES_W)]

\* ------------------------------------------------------------- entities

Thing(type, x, y) == [position |-> <<x, y>>, thing_type |-> type]

\* The entities vec![...] of each Map literal of main.
Roster(m) ==
    CASE m = 0 -> <<Thing("Prisoner", 53, 7), Thing("Guard", 21, 15),
                    Thing("Guard", 65, 11), Thing("Guard", 74, 20),
                    Thing("Guard", 8, 19)>>
      [] m = 1 -> <<Thing("Guard", 7, 9), Thing("Guard", 76, 14),
                    Thing("Guard", 39, 15)>>
      [] m = 2 -> <<Thing("Guard", 47, 9), Thing("Guard", 69, 13),
                    Thing("Guard", 19, 22), Thing("Guard", 29, 3)>>

\* A Vec is a sequence; v[i] of the code is Idx(v, i).
Idx(v, i) == v[i + 1]

\* ---------------------------------------------------------- move_entity

\* in_board with the width of the tile array for the width of the board.
in_board_tiles_w(to_x, to_y) ==
    /\ to_x >= 0 /\ to_x < TILES_W
    /\ to_y >= 0 /\ to_y < BOARD_H

\* The (0_i16..80).contains(&to_x) and (0_i16..23).contains(&to_y) tests.
in_board(to_x, to_y) ==
    /\ to_x >= 0 /\ to_x < BOARD_W
    /\ to_y >= 0 /\ to_y < BOARD_H

\* move_entity without its test for a Wall.
move_entity_through_walls(map, which, dx, dy) ==
    LET x == map.entities[which + 1].position[1]
        y == map.entities[which + 1].position[2]
    IN  IF ~in_board(x + dx, y + dy)
        THEN [map |-> map, ret |-> FALSE]
        ELSE [map |-> [map EXCEPT !.entities[which + 1].position =
                                    <<x + dx, y + dy>>],
              ret |-> TRUE]

\* Map::move_entity(&mut self, which, dx, dy) -> bool: the map after the
\* call and the value returned.
move_entity(map, which, dx, dy) ==
    LET x == Idx(map.entities, which).position[1]
        y == Idx(map.entities, which).position[2]
        to_x == x + dx
        to_y == y + dy
    IN  IF ~in_board(to_x, to_y)
        THEN [map |-> map, ret |-> FALSE]
        ELSE IF TileAt(map.tiles, to_x, to_y) = Wall
        THEN [map |-> map, ret |-> FALSE]
        ELSE [map |-> [map EXCEPT !.entities[which + 1].position = <<to_x, to_y>>],
              ret |-> TRUE]

\* --------------------------------------------------------- construction

\* Most guards a map of the move_entity and turn-engine specifications
\* below is built with (the program itself builds every guard of Roster).
MaxGuards == 1

\* The guards of a roster are numbered 1, 2, ... in its order.
AllGuards == 1 .. 4

\* The entries of roster r that are the prisoner or a guard numbered in keep.
KeepGuards(r, keep) ==
    LET ordinal(i) == Cardinality({j \in 1 .. i : r[j].thing_type = "Guard"})
        F[i \in 0 .. Len(r)] ==
            IF i = 0 THEN <<>>
            ELSE IF r[i].thing_type = "Prisoner" \/ ordinal(i) \in keep
                 THEN Append(F[i - 1], r[i])
                 ELSE F[i - 1]
    IN  F[Len(r)]

\* One Map literal of main.
BuildMap(layout, m, keep) ==
    [tiles |-> parse_tilemap(MapText(layout, m)),
     entities |-> KeepGuards(Roster(m), keep)]

\* main, from the World literal to the first read(): three maps, the prisoner
\* on map 0, no key, full health.  Row 25, the status row, shows the third
\* line of the instructions.
Construct(layout, keep, checks) ==
    /\ world = [maps |-> <<BuildMap(layout, 0, keep), BuildMap(layout, 1, keep),
                           BuildMap(layout, 2, keep)>>,
                current_map |-> 0]
    /\ prisoner_state = [keys |-> <<>>, health |-> START_HEALTH]
    /\ game_over = FALSE
    /\ status_message = "You are currently in your cell. Goodluck!"
    /\ pc = "loop"
    /\ overflow_checks = checks
    /\ last = [op |-> "init"]

\* The program: every guard of the roster; the build either checks integer
\* overflow (a debug profile) or wraps (a release profile).
Init ==
    \E layout \in Layouts, checks \in BOOLEAN :
        Construct(layout, AllGuards, checks)

\* ------------------------------------------------- move_entity, applied

Deltas == (0 - GUARD_REACH) .. GUARD_REACH

\* world.maps[world.current_map]
CurrentMap == world.maps[world.current_map + 1]

\* One call of move_entity on a Map, for any entity of it and any delta of
\* -2..2; last keeps the call and its return value.
MoveStep ==
    \E which \in 0 .. 4, dx \in Deltas, dy \in Deltas :
        LET r == move_entity(CurrentMap, which, dx, dy)
        IN  /\ which < Len(CurrentMap.entities)
            /\ world' = [world EXCEPT !.maps[world.current_map + 1] = r.map]
            /\ last' = [op |-> "move_entity", which |-> which, dx |-> dx,
                        dy |-> dy, ret |-> r.ret]
            /\ UNCHANGED <<prisoner_state, game_over, status_message, pc,
                           overflow_checks>>

\* The Maps move_entity is applied to: each of the three maps of layouts "A"
\* and "C", built with the prisoner and at most MaxGuards of its guards;
\* current_map only names the Map the calls are made on.
InitMove ==
    \E layout \in {"A", "C"}, keep \in SUBSET AllGuards, cm \in 0 .. 2 :
        /\ Cardinality(keep) <= MaxGuards
        /\ world = [maps |-> <<BuildMap(layout, 0, keep),
                               BuildMap(layout, 1, keep),
                               BuildMap(layout, 2, keep)>>,
                    current_map |-> cm]
        /\ Len(world.maps[cm + 1].entities) > 0
        /\ prisoner_state = [keys |-> <<>>, health |-> START_HEALTH]
        /\ game_over = FALSE
        /\ status_message = "You are currently in your cell. Goodluck!"
        /\ pc = "loop"
        /\ overflow_checks = TRUE
        /\ last = [op |-> "init"]

SpecMove == InitMove /\ [][MoveStep]_vars

\* ------------------------------------------------------------- the turn

Commands == {"Left", "Right", "Up", "Down", "Other"}

\* delta with Left and Right exchanged.
delta_mirrored(cmd) ==
    CASE cmd = "Left" -> <<1, 0>>
      [] cmd = "Right" -> <<-1, 0>>
      [] cmd = "Up" -> <<0, -1>>
      [] cmd = "Down" -> <<0, 1>>
      [] OTHER -> <<0, 0>>

\* delta with a step down for the keys that are no arrow.
delta_other_down(cmd) ==
    CASE cmd = "Left" -> <<-1, 0>>
      [] cmd = "Right" -> <<1, 0>>
      [] cmd = "Up" -> <<0, -1>>
      [] OTHER -> <<0, 1>>

\* let (dx,dy) = match code { ... }
delta(cmd) ==
    CASE cmd = "Left" -> <<-1, 0>>
      [] cmd = "Right" -> <<1, 0>>
      [] cmd = "Up" -> <<0, -1>>
      [] cmd = "Down" -> <<0, 1>>
      [] OTHER -> <<0, 0>>

\* What entity ent of map can be after move_entity(ent, dx, dy) with dx and
\* dy drawn by rng.gen_range(-2..=2).
guard_draws(map, ent) ==
    {Idx(move_entity(map, ent, dx, dy).map.entities, ent) :
        dx \in Deltas, dy \in Deltas}

\* for ent in 1..map.entities.len() { move_entity(ent, gen_range(-2..=2),
\* gen_range(-2..=2)) }: the entities from ent on, after the loop.  A call
\* reads the tiles and the entity it moves and writes that entity only, so
\* what a guard draws does not depend on the guards moved before it.
RECURSIVE guards_after(_, _)
guards_after(map, ent) ==
    IF ent >= Len(map.entities)
    THEN {<<>>}
    ELSE {<<e>> \o rest : e \in guard_draws(map, ent),
                          rest \in guards_after(map, ent + 1)}

\* The maps the loop over the guards can leave.
move_guards(map) ==
    {[map EXCEPT !.entities = <<Head(map.entities)>> \o guards] :
        guards \in guards_after(map, 1)}

\* usize holds the integers modulo 2^64.  A value of 2^63 or more is written
\* by its residue below zero, so -50 stands for 2^64 - 50; values written
\* that way subtract and compare for equality as the 64-bit values do.
\* a - b on usize: the difference, and whether it left the range of usize.
usize_sub(a, b) ==
    [value |-> a - b, overflow |-> a >= 0 /\ a < b]

\* guard_hits by the rule of instant death: the first guard on pos ends the
\* game.
RECURSIVE guard_hits_deadly(_, _, _, _, _)
guard_hits_deadly(entities, i, pos, checks, s) ==
    IF i >= Len(entities)
    THEN s
    ELSE IF Idx(entities, i).thing_type = "Guard"
            /\ Idx(entities, i).position = pos
    THEN [s EXCEPT !.health = 0, !.game_over = TRUE,
                   !.status_message = "You died! Game Over"]
    ELSE guard_hits_deadly(entities, i + 1, pos, checks, s)

\* The guards after the first that stand on pos, each taking 50 of the
\* health: s is the health, game_over and status_message so far.  A
\* subtraction that overflows panics in a build that checks overflow.
RECURSIVE guard_hits(_, _, _, _, _)
guard_hits(entities, i, pos, checks, s) ==
    IF i >= Len(entities) \/ s.panicked
    THEN s
    ELSE IF Idx(entities, i).thing_type = "Guard"
            /\ Idx(entities, i).position = pos
    THEN LET d == usize_sub(s.health, GUARD_DAMAGE)
         IN  IF d.overflow /\ checks
             THEN [s EXCEPT !.panicked = TRUE]
             ELSE IF d.value = 0
             THEN guard_hits(entities, i + 1, pos, checks,
                     [s EXCEPT !.health = d.value,
                               !.status_message = "You died! Game Over",
                               !.game_over = TRUE])
             ELSE guard_hits(entities, i + 1, pos, checks,
                     [s EXCEPT !.health = d.value,
                               !.status_message = "A guard hit you"])
    ELSE guard_hits(entities, i + 1, pos, checks, s)

\* The status messages of the locked door and of the key.
LOCKED_MESSAGE ==
    "You need a key or the right key to open this door!          "

KEY_MESSAGE == "You collected a key!                   "

\* door_entry with the entry of the other doors east of the board.
door_entry_off_board(door_id) ==
    IF door_id = 1
    THEN [position |-> <<6, 0>>,
          message |-> "You are entering the infirmary              "]
    ELSE IF door_id = 0
    THEN [position |-> <<74, 0>>,
          message |-> "You are entering the cafeteria              "]
    ELSE [position |-> <<BOARD_W, 0>>,
          message |-> "Find your way through the tunnels                   "]

\* player.position and the status message of an opened door.
door_entry(door_id) ==
    IF door_id = 1
    THEN [position |-> <<6, 0>>,
          message |-> "You are entering the infirmary              "]
    ELSE IF door_id = 0
    THEN [position |-> <<74, 0>>,
          message |-> "You are entering the cafeteria              "]
    ELSE [position |-> <<40, 0>>,
          message |-> "Find your way through the tunnels                   "]

\* is_exit that takes no door for the exit.
is_exit_never(door_id) == FALSE

\* door_id == DoorID(3)
is_exit(door_id) == door_id = EXIT_DOOR

\* insert_front that drops the entities the player joins.
insert_front_alone(entities, player) == <<player>>

\* entities.insert(0, player)
insert_front(entities, player) == <<player>> \o entities

\* contains that finds every door id.
contains_any(keys, door_id) == TRUE

\* keys.contains(&door_id)
contains(keys, door_id) == \E i \in 1 .. Len(keys) : keys[i] = door_id

\* "Maybe move between rooms" and "maybe get a key": the tile under the
\* prisoner at pos, resolved on world w with prisoner keys and state s.
\* Indexing maps past its end panics.
resolve_tile(w, keys, pos, s) ==
    LET cm == w.current_map
        map == w.maps[cm + 1]
        tile == TileAt(map.tiles, pos[1], pos[2])
        same == [world |-> w, keys |-> keys, game_over |-> s.game_over,
                 status_message |-> s.status_message, panicked |-> FALSE]
    IN  IF tile.kind = "Door"
        THEN IF is_exit(tile.id)
             THEN [same EXCEPT
                     !.status_message = "You made it out! Enjoy your freedom          ",
                     !.game_over = TRUE]
             ELSE IF contains(keys, tile.id)
             THEN LET player == [Head(map.entities) EXCEPT
                                   !.position = door_entry(tile.id).position]
                      left == [w EXCEPT !.current_map = cm + 1,
                                        !.maps[cm + 1].entities = Tail(@)]
                  IN  IF cm + 1 >= Len(w.maps)
                      THEN [same EXCEPT
                              !.world = left,
                              !.status_message = door_entry(tile.id).message,
                              !.panicked = TRUE]
                      ELSE [same EXCEPT
                              !.world = [left EXCEPT !.maps[cm + 2].entities =
                                                        insert_front(@, player)],
                              !.status_message = door_entry(tile.id).message]
             ELSE [same EXCEPT !.status_message = LOCKED_MESSAGE]
        ELSE IF tile.kind = "Key"
        THEN [same EXCEPT
                !.keys = Append(keys, tile.id),
                !.status_message = KEY_MESSAGE,
                !.world = [w EXCEPT !.maps[cm + 1].tiles =
                                      SetTile(@, pos[1], pos[2], Empty)]]
        ELSE same

\* Guards (entities after the first) standing on pos.
guards_on(entities, pos) ==
    Cardinality({i \in 1 .. Len(entities) - 1 :
                    /\ Idx(entities, i).thing_type = "Guard"
                    /\ Idx(entities, i).position = pos})

\* plays_turn without the test of game_over.
plays_turn_always == TRUE

\* if game_over { continue; }: a key press is played only while the game is on.
plays_turn == ~game_over

\* The 80 blanks a turn's status message starts as.
BLANK ==
    "                                                                                "

\* One key press other than Esc while the game is on: the body of the event
\* loop, from the match on the key code to the drawing of the status row.
\* last keeps the command, the entities as they stood after the moves, the
\* prisoner's position then, the tile under it, the guards on it and the
\* panic that ended the turn, if one did.
Turn ==
    /\ pc = "loop"
    /\ plays_turn
    /\ \E cmd \in Commands :
         \E moved \in move_guards(
                 move_entity(CurrentMap, 0, delta(cmd)[1], delta(cmd)[2]).map) :
            LET pos == Idx(moved.entities, 0).position
                w1 == [world EXCEPT !.maps[world.current_map + 1] = moved]
                s1 == guard_hits(moved.entities, 1, pos, overflow_checks,
                         [health |-> prisoner_state.health,
                          game_over |-> game_over,
                          status_message |-> BLANK,
                          panicked |-> FALSE])
                r == resolve_tile(w1, prisoner_state.keys, pos, s1)
            IN  /\ last' = [op |-> "turn", cmd |-> cmd,
                            moved |-> moved.entities, pos |-> pos,
                            tile |-> TileAt(moved.tiles, pos[1], pos[2]),
                            hits |-> guards_on(moved.entities, pos),
                            panic |-> IF s1.panicked THEN "overflow"
                                      ELSE IF r.panicked THEN "index"
                                      ELSE "none"]
                /\ IF s1.panicked
                   THEN /\ world' = w1
                        /\ prisoner_state' = [prisoner_state EXCEPT
                                                !.health = s1.health]
                        /\ game_over' = s1.game_over
                        /\ status_message' = s1.status_message
                        /\ pc' = "panicked"
                   ELSE /\ world' = r.world
                        /\ prisoner_state' = [keys |-> r.keys,
                                              health |-> s1.health]
                        /\ game_over' = r.game_over
                        /\ status_message' = r.status_message
                        /\ pc' = IF r.panicked THEN "panicked" ELSE "loop"
                /\ UNCHANGED overflow_checks

\* A key press other than Esc once the game is over: continue.
Ignored ==
    /\ pc = "loop"
    /\ ~plays_turn
    /\ \E cmd \in Commands : last' = [op |-> "ignored", cmd |-> cmd]
    /\ UNCHANGED <<world, prisoner_state, game_over, status_message, pc,
                   overflow_checks>>

\* Esc: break.
Quit ==
    /\ pc = "loop"
    /\ pc' = "exited"
    /\ last' = [op |-> "quit"]
    /\ UNCHANGED <<world, prisoner_state, game_over, status_message,
                   overflow_checks>>

Next == Turn \/ Ignored \/ Quit

Spec == Init /\ [][Next]_vars

\* The turn engine on worlds built with at most MaxGuards guards a map.
InitEngine ==
    \E layout \in Layouts, keep \in SUBSET AllGuards, checks \in BOOLEAN :
        /\ Cardinality(keep) <= MaxGuards
        /\ Construct(layout, keep, checks)

SpecEngine == InitEngine /\ [][Next]_vars

\* =============================================================== claims

\* A position on the board whose tile is not a Wall.
OnOpenBoard(tiles, p) ==
    /\ p[1] >= 0 /\ p[1] < BOARD_W
    /\ p[2] >= 0 /\ p[2] < BOARD_H
    /\ TileAt(tiles, p[1], p[2]) # Wall

\* The entities of every map.
Entities(w) == [m \in 1 .. Len(w.maps) |-> w.maps[m].entities]

\* The key tiles of a world: <<map, position, door id>>.
KeyCells(w) ==
    UNION {{<<m, p, w.maps[m].tiles[p].id>> :
                p \in {q \in DOMAIN w.maps[m].tiles :
                          w.maps[m].tiles[q].kind = "Key"}} :
            m \in 1 .. Len(w.maps)}

\* A step that is a turn played to its end (no panic cut it short).
TurnDone == last'.op = "turn" /\ pc' = "loop"

\* C1: a call of move_entity, for any map, entity and delta of -2..2, on an
\* entity that stands on the board and not on a Wall leaves it on the board
\* and not on a Wall.
C1_MoveStaysOnOpenBoard ==
    [][last'.op = "move_entity" =>
        LET m == world.current_map + 1
            i == last'.which + 1
        IN  OnOpenBoard(world.maps[m].tiles, world.maps[m].entities[i].position)
            => OnOpenBoard(world'.maps[m].tiles,
                           world'.maps[m].entities[i].position)]_vars

\* C1 witness: a call that was refused because the candidate lay east of the
\* board, on column 80 of the tile array.
C1_Witness ==
    /\ last.op = "move_entity"
    /\ ~last.ret
    /\ Idx(CurrentMap.entities, last.which).position[1] + last.dx = BOARD_W

\* C2: move_entity returns false and changes nothing when the candidate is
\* off the board or a Wall; otherwise it returns true and the world differs
\* only in the position of the entity addressed, now current + (dx, dy).
C2_MoveContract ==
    [][last'.op = "move_entity" =>
        LET m == world.current_map + 1
            i == last'.which + 1
            p == world.maps[m].entities[i].position
            c == <<p[1] + last'.dx, p[2] + last'.dy>>
        IN  /\ UNCHANGED <<prisoner_state, game_over, status_message, pc>>
            /\ IF OnOpenBoard(world.maps[m].tiles, c)
               THEN /\ last'.ret = TRUE
                    /\ world' = [world EXCEPT !.maps[m].entities[i].position = c]
               ELSE /\ last'.ret = FALSE
                    /\ world' = world]_vars

\* C2 witness: a call that moved a guard of a map that holds other entities.
C2_Witness ==
    /\ last.op = "move_entity"
    /\ last.ret
    /\ last.which > 0
    /\ <<last.dx, last.dy>> # <<0, 0>>
    /\ Len(CurrentMap.entities) > 1

\* C3: once game_over is true, no step changes the world, the prisoner's
\* keys or health, and game_over stays true.
C3_GameOverAbsorbs ==
    [][game_over =>
        /\ world' = world
        /\ prisoner_state' = prisoner_state
        /\ game_over']_vars

\* C3 witness: a key press absorbed after the prisoner died.
C3_Witness ==
    /\ game_over
    /\ last.op = "ignored"
    /\ prisoner_state.health = 0

\* C4, as claimed: the health is within 0..100 in every state, and no
\* subtraction of 50 leaves the range of the unsigned health.
C4_HealthInRange ==
    /\ prisoner_state.health >= 0
    /\ prisoner_state.health <= START_HEALTH
    /\ ~(last.op = "turn" /\ last.panic = "overflow")

\* C5, as claimed: from health 100, a turn that ends with a guard on the
\* prisoner's tile leaves health 50, the game on and the message "A guard hit
\* you"; from health 50, it leaves health 0, the game over and the message
\* "You died! Game Over".
C5_AnyCollision ==
    [][(TurnDone /\ last'.hits >= 1) =>
        /\ prisoner_state.health = START_HEALTH =>
              /\ prisoner_state'.health = 50
              /\ ~game_over'
              /\ status_message' = "A guard hit you"
        /\ prisoner_state.health = 50 =>
              /\ prisoner_state'.health = 0
              /\ game_over'
              /\ status_message' = "You died! Game Over"]_vars

\* C5, amended: the same, for a turn that ends with exactly one guard on the
\* prisoner's tile and that tile neither a Door nor a Key.
C5_OneGuardOnPlainTile ==
    [][(last'.op = "turn" /\ last'.hits = 1
            /\ last'.tile.kind \notin {"Door", "Key"}) =>
        /\ pc' = "loop"
        /\ prisoner_state.health = START_HEALTH =>
              /\ prisoner_state'.health = 50
              /\ ~game_over'
              /\ status_message' = "A guard hit you"
        /\ prisoner_state.health = 50 =>
              /\ prisoner_state'.health = 0
              /\ game_over'
              /\ status_message' = "You died! Game Over"]_vars

\* C5 witness: the second collision, one guard on a plain tile, has killed
\* the prisoner.
C5_Witness ==
    /\ last.op = "turn"
    /\ last.hits = 1
    /\ last.tile = Empty
    /\ prisoner_state.health = 0
    /\ game_over
    /\ status_message = "You died! Game Over"

\* C6, as claimed: in every state exactly one Prisoner exists across the
\* maps, it is entities[0] of maps[current_map], and every entity at another
\* index is a Guard.
C6_OnePrisonerAtIndexZero ==
    /\ world.current_map < Len(world.maps)
    /\ Len(CurrentMap.entities) > 0
    /\ Idx(CurrentMap.entities, 0).thing_type = "Prisoner"
    /\ \A m \in 1 .. Len(world.maps) :
         \A i \in 1 .. Len(world.maps[m].entities) :
            (m = world.current_map + 1 /\ i = 1)
            \/ world.maps[m].entities[i].thing_type = "Guard"

\* C7, as claimed: 0 <= current_map < maps.len() in every state.
C7_CurrentMapInRange ==
    /\ world.current_map >= 0
    /\ world.current_map < Len(world.maps)

\* C8: the turn that ends with the prisoner on a Key(d) tile at P appends d
\* to the keys and leaves the tile at P Empty; no tile ever becomes a key
\* again; and a turn that ends on a tile that is no key adds no key and shows
\* no pickup message.  So a later turn that ends on P picks nothing up.
C8_KeyPickedOnce ==
    [][/\ KeyCells(world') \subseteq KeyCells(world)
       /\ TurnDone =>
            LET m == world.current_map + 1
                p == last'.pos
            IN  IF last'.tile.kind = "Key"
                THEN /\ prisoner_state'.keys =
                            Append(prisoner_state.keys, last'.tile.id)
                     /\ status_message' = KEY_MESSAGE
                     /\ TileAt(world'.maps[m].tiles, p[1], p[2]) = Empty
                ELSE /\ prisoner_state'.keys = prisoner_state.keys
                     /\ status_message' # KEY_MESSAGE]_vars

\* C8 witness: the prisoner has come back to the cell where it picked up the
\* key of door 0 (map 0, (52,7)), and holds that key once.
C8_Witness ==
    /\ last.op = "turn"
    /\ world.current_map = 0
    /\ last.pos = <<52, 7>>
    /\ last.tile = Empty
    /\ last.cmd = "Left"
    /\ prisoner_state.keys = <<0>>

C10_LockedDoor ==
    [][(TurnDone /\ last'.tile.kind = "Door" /\ last'.tile.id # EXIT_DOOR
            /\ \A k \in 1 .. Len(prisoner_state.keys) :
                  prisoner_state.keys[k] # last'.tile.id) =>
        /\ world'.current_map = world.current_map
        /\ Entities(world') =
              [Entities(world) EXCEPT ![world.current_map + 1] = last'.moved]
        /\ Idx(CurrentMap'.entities, 0).position = last'.pos
        /\ prisoner_state'.keys = prisoner_state.keys
        /\ status_message' = LOCKED_MESSAGE]_vars

\* C10 witness: the prisoner stands on door 0 of map 0 without a key, told
\* that it needs one.
C10_Witness ==
    /\ last.op = "turn"
    /\ last.tile = Door(0)
    /\ prisoner_state.keys = <<>>
    /\ Idx(CurrentMap.entities, 0).position = <<54, 7>>
    /\ status_message = LOCKED_MESSAGE

\* C11: a turn that ends with the prisoner on a Door(3) tile sets game_over
\* and shows the message of the escape, whatever keys the prisoner holds;
\* current_map stays and the entities stay as the moves left them.
C11_ExitDoor ==
    [][(last'.op = "turn" /\ last'.panic # "overflow"
            /\ last'.tile = Door(EXIT_DOOR)) =>
        /\ pc' = "loop"
        /\ game_over'
        /\ status_message' = "You made it out! Enjoy your freedom          "
        /\ world'.current_map = world.current_map
        /\ Entities(world') =
              [Entities(world) EXCEPT ![world.current_map + 1] = last'.moved]
        /\ prisoner_state'.keys = prisoner_state.keys]_vars

\* C11 witness: the prisoner escaped through door 3 of map 1 holding the key
\* of door 3, and is still on that map, on the door.
C11_Witness ==
    /\ last.op = "turn"
    /\ last.tile = Door(EXIT_DOOR)
    /\ \E k \in 1 .. Len(prisoner_state.keys) : prisoner_state.keys[k] = EXIT_DOOR
    /\ game_over
    /\ world.current_map = 1
    /\ Idx(CurrentMap.entities, 0) = Thing("Prisoner", 41, 0)
    /\ status_message = "You made it out! Enjoy your freedom          "

\* The turn ends on a door other than door 3 that the prisoner holds the key
\* of (the keys as they were before the turn: a turn picks up no key on a
\* door tile).
OnOpenedDoor ==
    /\ last'.op = "turn"
    /\ last'.panic # "overflow"
    /\ last'.tile.kind = "Door"
    /\ last'.tile.id # EXIT_DOOR
    /\ \E k \in 1 .. Len(prisoner_state.keys) :
          prisoner_state.keys[k] = last'.tile.id

\* The transition of C12 from the map current before the step: current_map
\* is one more, the prisoner has left the source map, whose guards stand as
\* the moves left them, and is entities[0] of the new current map, before
\* the entities that map held, at (6,0) for door 1, (74,0) for door 0 and
\* (40,0) for any other door; the keys are as they were.
Transition ==
    LET cm == world.current_map
        d == last'.tile.id
        entry == IF d = 1 THEN <<6, 0>>
                 ELSE IF d = 0 THEN <<74, 0>> ELSE <<40, 0>>
    IN  /\ world'.current_map = cm + 1
        /\ world'.maps[cm + 1].entities = Tail(last'.moved)
        /\ cm + 2 <= Len(world'.maps)
        /\ world'.maps[cm + 2].entities =
              <<Thing("Prisoner", entry[1], entry[2])>>
                  \o world.maps[cm + 2].entities
        /\ prisoner_state'.keys = prisoner_state.keys
        /\ pc' = "loop"

\* C12, as claimed: a turn that ends with the prisoner on a Door(d), d # 3,
\* d among the keys, adds 1 to current_map, removes the prisoner from the
\* source map and inserts it at index 0 of the new current map at the entry
\* of door d, and keeps the keys.
C12_OpenedDoor ==
    [][OnOpenedDoor => Transition]_vars

\* C12 on a map that has a next map: there the transition is as claimed.
C12_OpenedDoorBeforeLastMap ==
    [][(OnOpenedDoor /\ world.current_map + 1 < Len(world.maps))
            => Transition]_vars

\* The guards that stand on the prisoner's tile once the prisoner and every
\* guard of the current map have moved.
GuardsOnPrisoner ==
    Cardinality({i \in 2 .. Len(last'.moved) :
                    /\ last'.moved[i].thing_type = "Guard"
                    /\ last'.moved[i].position = last'.pos})

\* C13, as claimed: a turn takes 50 of the health once for each guard that
\* stands on the prisoner's tile after all the moves, and nothing when none
\* does.
C13_HitPerGuard ==
    [][last'.op = "turn" =>
        /\ last'.panic # "overflow"
        /\ prisoner_state.health - GUARD_DAMAGE * GuardsOnPrisoner >= 0
        /\ prisoner_state'.health =
              prisoner_state.health - GUARD_DAMAGE * GuardsOnPrisoner]_vars

\* C13 while the health covers the hits: there the turn is as claimed.
C13_HitPerGuardWithinHealth ==
    [][(last'.op = "turn"
            /\ GUARD_DAMAGE * GuardsOnPrisoner <= prisoner_state.health) =>
        /\ last'.panic # "overflow"
        /\ prisoner_state'.health =
              prisoner_state.health - GUARD_DAMAGE * GuardsOnPrisoner]_vars

\* C14: no step changes a tile of any map, but for the turn that ends with
\* the prisoner on a Key tile of the current map, which leaves that tile
\* Empty: a Wall stays a Wall, a Door a Door, an Empty tile Empty, and no tile
\* becomes a Key, a Door or a Wall.  (The tiles that are no Wall are the
\* domain of tiles.)
C14_TilesOnlyLoseKeys ==
    [][\A m \in 1 .. Len(world.maps) :
          LET old == world.maps[m].tiles
              new == world'.maps[m].tiles
          IN  /\ DOMAIN new = DOMAIN old
              /\ \A p \in DOMAIN old :
                    \/ new[p] = old[p]
                    \/ /\ last'.op = "turn"
                       /\ m = world.current_map + 1
                       /\ p = last'.pos
                       /\ old[p].kind = "Key"
                       /\ new[p] = Empty]_vars

\* C14 witness: on map 0 of layout "A" the key of door 0 is gone from (52,7),
\* picked up, and the other tiles of the cell block are what they were.
C14_Witness ==
    /\ last.op = "turn"
    /\ last.tile = Key(0)
    /\ last.pos = <<52, 7>>
    /\ TileAt(world.maps[1].tiles, 52, 7) = Empty
    /\ TileAt(world.maps[1].tiles, 54, 7) = Door(0)
    /\ TileAt(world.maps[1].tiles, 53, 6) = Key(1)
    /\ TileAt(world.maps[1].tiles, 51, 7) = Wall

\* C15: in every state every entity of every map stands within
\* [0,80) x [0,23), the prisoner right after a door transition included.
C15_EntitiesOnBoard ==
    \A m \in 1 .. Len(world.maps) :
        \A i \in 1 .. Len(world.maps[m].entities) :
            LET p == world.maps[m].entities[i].position
            IN  /\ 0 <= p[1] /\ p[1] < 80
                /\ 0 <= p[2] /\ p[2] < 23

\* C15 witness: a door of map 1 has just put the prisoner at the entry
\* (40,0) of map 2, on the top row of the board, before the four guards of
\* that map.
C15_Witness ==
    /\ last.op = "turn"
    /\ last.tile.kind = "Door"
    /\ last.pos # <<40, 0>>
    /\ world.current_map = 2
    /\ Idx(CurrentMap.entities, 0) = Thing("Prisoner", 40, 0)
    /\ Len(CurrentMap.entities) = 5

\* C16: in a turn the prisoner's move takes it one tile left, right, up or
\* down, as the command says, when that tile is on the board and no Wall,
\* and leaves it where it was when the tile is off the board or a Wall or
\* the command is no direction.  A turn in which the prisoner did not move
\* still runs to its end: the guards on its tile take their 50 each, a Key
\* under it is picked up and door 3 under it ends the game.
C16_PrisonerStep ==
    [][last'.op = "turn" =>
        LET p == Idx(CurrentMap.entities, 0).position
            c == CASE last'.cmd = "Left" -> <<p[1] - 1, p[2]>>
                   [] last'.cmd = "Right" -> <<p[1] + 1, p[2]>>
                   [] last'.cmd = "Up" -> <<p[1], p[2] - 1>>
                   [] last'.cmd = "Down" -> <<p[1], p[2] + 1>>
                   [] OTHER -> p
        IN  /\ last'.pos = IF OnOpenBoard(CurrentMap.tiles, c) THEN c ELSE p
            /\ (last'.pos = p /\ last'.panic # "overflow") =>
                  /\ GUARD_DAMAGE * GuardsOnPrisoner <= prisoner_state.health =>
                        prisoner_state'.health = prisoner_state.health
                                    - GUARD_DAMAGE * GuardsOnPrisoner
                  /\ last'.tile.kind = "Key" =>
                        prisoner_state'.keys =
                            Append(prisoner_state.keys, last'.tile.id)
                  /\ last'.tile = Door(EXIT_DOOR) => game_over']_vars

\* C16 witness: in layout "B", where walls surround the prisoner's cell
\* (53,7), Left moved nothing, and in that turn a guard came onto the cell
\* and took the first 50 of the health.
C16_Witness ==
    /\ last.op = "turn"
    /\ last.cmd = "Left"
    /\ last.pos = <<53, 7>>
    /\ TileAt(CurrentMap.tiles, 52, 7) = Wall
    /\ last.hits = 1
    /\ prisoner_state.health = 50
    /\ status_message = "A guard hit you"

\* C17: a turn leaves every map other than the current one as it was, tiles
\* and entities, but for the next map when the turn passes an opened door:
\* that map gains the prisoner in front of its entities and nothing else
\* changes in it.  A step that is no turn changes no map.
C17_OtherMapsKept ==
    [][/\ last'.op # "turn" => world' = world
       /\ last'.op = "turn" =>
            /\ Len(world'.maps) = Len(world.maps)
            /\ \A m \in 1 .. Len(world.maps) :
                  \/ m = world.current_map + 1
                  \/ world'.maps[m] = world.maps[m]
                  \/ /\ OnOpenedDoor
                     /\ m = world.current_map + 2
                     /\ world'.current_map = world.current_map + 1
                     /\ world'.maps[m].tiles = world.maps[m].tiles
                     /\ Len(world'.maps[m].entities) =
                            Len(world.maps[m].entities) + 1
                     /\ Head(world'.maps[m].entities).thing_type = "Prisoner"
                     /\ Tail(world'.maps[m].entities) =
                            world.maps[m].entities]_vars

\* C17 witness: the prisoner has just come to map 1 from map 0; a guard of
\* map 0 has left its post, and the guards of maps 1 and 2 stand where main
\* put them.
C17_Witness ==
    /\ last.op = "turn"
    /\ last.tile.kind = "Door"
    /\ world.current_map = 1
    /\ Head(world.maps[2].entities).thing_type = "Prisoner"
    /\ Tail(world.maps[2].entities) = Roster(1)
    /\ world.maps[3].entities = Roster(2)
    /\ world.maps[1].entities # Tail(Roster(0))

\* The prisoner, entities[0] of the current map, stands on a Door(3) tile.
OnExitDoor ==
    /\ world.current_map < Len(world.maps)
    /\ Len(CurrentMap.entities) > 0
    /\ LET p == Idx(CurrentMap.entities, 0).position
       IN  TileAt(CurrentMap.tiles, p[1], p[2]) = Door(EXIT_DOOR)

\* C18, as claimed: in every state game_over is true only if the health is 0
\* or the prisoner stands on a Door(3) tile, and the health is 0 only if
\* game_over is true.
C18_GameOverMeansDeadOrOut ==
    /\ game_over => (prisoner_state.health = 0 \/ OnExitDoor)
    /\ prisoner_state.health = 0 => game_over

\* C18 in the states whose health no subtraction has taken below zero:
\* there it holds.
C18_WithoutUnderflow ==
    (prisoner_state.health >= 0) => C18_GameOverMeansDeadOrOut

\* a <= b on usize, for values written as in usize_sub (a value below zero
\* stands for one of 2^63 or more).
UsizeLeq(a, b) ==
    IF (a >= 0) = (b >= 0) THEN a <= b ELSE a >= 0

\* The keys collected plus the Key tiles left on the maps.
KeysInPlay(w, ps) == Len(ps.keys) + Cardinality(KeyCells(w))

\* A step of C19: the keys collected plus the Key tiles of all maps stay as
\* many, the key list keeps what it held, the health does not increase and
\* current_map does not decrease.
MonotoneStep ==
    /\ KeysInPlay(world', prisoner_state') = KeysInPlay(world, prisoner_state)
    /\ Len(prisoner_state'.keys) >= Len(prisoner_state.keys)
    /\ SubSeq(prisoner_state'.keys, 1, Len(prisoner_state.keys))
           = prisoner_state.keys
    /\ UsizeLeq(prisoner_state'.health, prisoner_state.health)
    /\ world'.current_map >= world.current_map

\* C19, as claimed: over every step the keys collected plus the Key tiles of
\* all maps stay as many, the key list does not shrink, the health does not
\* increase and current_map does not decrease.
C19_Monotone ==
    [][MonotoneStep]_vars

\* C19 over the steps that take the health to no value below zero: there it
\* holds.
C19_WithoutUnderflow ==
    [][prisoner_state'.health >= 0 => MonotoneStep]_vars

\* The entities, as <<map, index>>, that stand on a Wall tile.
OnWall(w) ==
    {mi \in (1 .. Len(w.maps)) \X (1 .. 5) :
        /\ mi[2] <= Len(w.maps[mi[1]].entities)
        /\ LET p == w.maps[mi[1]].entities[mi[2]].position
           IN  TileAt(w.maps[mi[1]].tiles, p[1], p[2]) = Wall}

\* C20, as claimed: no entity of any map stands on a Wall tile in any state
\* (in every layout every entity of main's rosters starts on a tile that is
\* no Wall).
C20_NoEntityOnWall ==
    OnWall(world) = {}

\* C20 but for the entries: an entity on a Wall is the prisoner, on the
\* current map, at one of the entries (6,0), (74,0), (40,0).
C20_OnlyAtEntry ==
    \A mi \in OnWall(world) :
        /\ mi = <<world.current_map + 1, 1>>
        /\ world.current_map > 0
        /\ CurrentMap.entities[1].thing_type = "Prisoner"
        /\ CurrentMap.entities[1].position \in {<<6, 0>>, <<74, 0>>, <<40, 0>>}

====
